---------------------------- MODULE Spec2Model ----------------------------
(***************************************************************************)
(* Query preparation pipeline of cornucopia (src/src/prepare_queries.rs):  *)
(* prepare, prepare_module, prepare_query and the three insertion-ordered  *)
(* tables of a PreparedModule (add_row, add_query, add_params).            *)
(*                                                                         *)
(* An IndexMap is a sequence of entries, each carrying its key in `name`;  *)
(* the index of an entry is its position minus one (indices are 0-based,   *)
(* as in the code).  Option and Result values are tagged records.          *)
(***************************************************************************)
EXTENDS Integers, Sequences, FiniteSets, TLC

VARIABLES
    modules,           \* how many modules of prepare's input are still to do
    pc,                \* position of prepare: "modules" | "queries" | "done"
    tmp,               \* prepare_module's PreparedModule under construction
    current,           \* the query last handed to prepare_query, and how it went
    observed,          \* per query of tmp.queries: its source and what the server returned
    prepared_modules,  \* prepare's Vec<PreparedModule>
    result,            \* what prepare returned (None while running)
    server,            \* number of statements sent to client.prepare
    report             \* the returned Error as rendered (None before it is)

vars == <<modules, pc, tmp, current, observed, prepared_modules, result, server, report>>

-----------------------------------------------------------------------------
(* Bounds *)

MaxQueries == 3
MaxModules == 3
MaxRowQueries == 2

-----------------------------------------------------------------------------
(* Option / Result *)

None == [tag |-> "None"]
Some(v) == [tag |-> "Some", value |-> v]
Ok(v) == [tag |-> "Ok", value |-> v]
Err(e) == [tag |-> "Err", err |-> e]
Panic(m) == [tag |-> "Panic", msg |-> m]

IsSome(o) == o.tag = "Some"
IsOk(r) == r.tag = "Ok"
IsErr(r) == r.tag = "Err"

-----------------------------------------------------------------------------
(* Strings and their order *)

\* The identifiers used for columns and parameters, in ascending String order.
Idents == <<"a", "b", "c">>

Rank(n) == CHOOSE i \in DOMAIN Idents : Idents[i] = n

\* a.name.cmp(&b.name) != Greater
NameLeq(x, y) == Rank(x) <= Rank(y)

\* heck's to_upper_camel_case on the query names of the model: word
\* boundaries (underscores, case changes) are dropped, so distinct query
\* names can share one struct name.
ToUpperCamelCase(s) ==
    CASE s = "get_a" -> "GetA"
      [] s = "getA" -> "GetA"
      [] s = "get_b" -> "GetB"
      [] OTHER -> s

\* x.to_upper_camel_case() + "Params"
ParamsSuffix(s) ==
    CASE s = "GetA" -> "GetAParams"
      [] s = "GetB" -> "GetBParams"
      [] OTHER -> s

-----------------------------------------------------------------------------
(* Vec helpers *)

Range(s) == {s[i] : i \in DOMAIN s}

\* slice::contains
Contains(s, x) == \E i \in DOMAIN s : s[i] = x

\* Iterator::position: Some(0-based index of the first match) or None
Position(s, x) ==
    IF Contains(s, x)
    THEN Some((CHOOSE i \in DOMAIN s : s[i] = x /\ \A k \in 1..(i - 1) : s[k] # x) - 1)
    ELSE None

\* IndexMap::get_index_of on the key
IndexOf(table, name) ==
    IF \E i \in DOMAIN table : table[i].name = name
    THEN Some((CHOOSE i \in DOMAIN table : table[i].name = name) - 1)
    ELSE None

Arrangements(s) ==
    {p \in [DOMAIN s -> DOMAIN s] : \A i, j \in DOMAIN s : i # j => p[i] # p[j]}

\* No sort at all: the fields as they came.
Unsorted(fields) == {fields}

\* sort_unstable_by(|a, b| a.name.cmp(&b.name)): every arrangement of the
\* fields that is ascending by name; fields of equal names may come out in any
\* order.
SortUnstableByName(fields) ==
    {[i \in DOMAIN fields |-> fields[p[i]]] : p \in
        {p \in Arrangements(fields) :
            \A i \in 1..(Len(fields) - 1) : NameLeq(fields[p[i]].name, fields[p[i + 1]].name)}}

-----------------------------------------------------------------------------
(* Types (type_registrar) *)

\* CornucopiaType::is_copy
IsCopy(ty) == ty = "INT"

\* TypeRegistrar::register
Register(ty) == IF ty = "VOID" THEN Err([variant |-> "PostgresType", pg_name |-> ty]) ELSE Ok(ty)

PreparedField(name, ty, is_nullable) ==
    [name |-> name, ty |-> ty, is_nullable |-> is_nullable, is_inner_nullable |-> FALSE]


-----------------------------------------------------------------------------
(* ValidationError and Error *)

Validation(e) == [variant |-> "Validation", error |-> e]

\* One Error: Error::new and the struct literals of prepare_query all fill
\* it the same way.
ErrorNew(e, query, path) ==
    [query_name |-> query.name.value,
     query_start_line |-> Some(query.line),
     err |-> e,
     path |-> path]

\* Option::unwrap_or_default on an Option<usize>
UnwrapOrDefault(opt) == IF IsSome(opt) THEN opt.value ELSE 0

\* Display for Error: the pieces written to the formatter in order, or the
\* panic of as_db_error().unwrap() on a driver error that is not a DbError.
Display(error) ==
    IF error.err.variant = "Db"
    THEN IF IsSome(error.err.db_error)
         THEN Ok(<<"Error while preparing query \"", error.query_name,
                   "\" [file: \"", error.path,
                   "\", line: ", UnwrapOrDefault(error.query_start_line),
                   "] (", error.err.db_error.value, ")">>)
         ELSE Panic("unwrap on None")
    ELSE IF IsSome(error.query_start_line)
    THEN Ok(<<"Error while preparing query \"", error.query_name,
              "\" [file: \"", error.path,
              "\", line: ", error.query_start_line.value,
              "]:\n", error.err>>)
    ELSE Ok(<<"Error while preparing query \"", error.query_name,
              "\" [file: \"", error.path,
              "\"]: ", error.err>>)

-----------------------------------------------------------------------------
(* PreparedModule::add_row *)

\* The test without its second half: only the lengths are compared.
RowLengthsDiffer(prev, fields) == Len(prev) # Len(fields)

\* The test of line 78: the row does not contain the same fields as the
\* previously registered row with the same name.
RowFieldsDiffer(prev, fields) ==
    Len(prev) # Len(fields) \/ ~(\A k \in DOMAIN prev : Contains(fields, prev[k]))

\* The positions the other way round: for each column of the query, its
\* position among the fields of the registered row.
RowIndexesOfColumns(prev, fields) ==
    [k \in DOMAIN prev |-> Position(prev, fields[k])]

\* Each field looked up among the columns by its type alone.
RowIndexesByType(prev, fields) ==
    [k \in DOMAIN prev |->
        Position([i \in DOMAIN fields |-> fields[i].ty], prev[k].ty)]

\* Lines 89-92: for each field of the registered row, its position among the
\* query's columns.
RowIndexes(prev, fields) ==
    [k \in DOMAIN prev |-> Position(fields, prev[k])]

\* The first row of the table answered for whatever name, its fields taken
\* to be in the order of the columns.
AddRowOccupiedAtZero(rows, name, fields) ==
    Ok(<<0, [k \in DOMAIN fields |-> k - 1]>>)

\* Entry::Occupied
AddRowOccupied(rows, name, fields) ==
    LET idx == IndexOf(rows, name.value).value
        prev == rows[idx + 1].fields
        indexes == RowIndexes(prev, fields)
    IN  IF RowFieldsDiffer(prev, fields)
        THEN Err(Validation([kind |-> "NamedRowInvalidFields",
                             expected |-> prev,
                             actual |-> fields,
                             name |-> name.value,
                             pos |-> name.pos]))
        ELSE IF \E k \in DOMAIN indexes : ~IsSome(indexes[k])
        THEN Panic("unwrap on None")
        ELSE Ok(<<idx, [k \in DOMAIN indexes |-> indexes[k].value]>>)

\* The new row put first, moving every other row up by one.
InsertRowFirst(rows, row) == <<row>> \o rows

\* Entry::Vacant: where the new row goes in the table.
InsertRow(rows, row) == Append(rows, row)

\* The outcomes of add_row: the table afterwards and the value returned.
add_row(rows, name, fields) ==
    IF fields = <<>>
    THEN {[rows |-> rows, res |-> Panic("assertion failed")]}
    ELSE IF IsSome(IndexOf(rows, name.value))
    THEN {[rows |-> rows, res |-> AddRowOccupied(rows, name, fields)]}
    ELSE {LET inserted == InsertRow(rows, [name |-> name.value,
                                           fields |-> sorted,
                                           is_copy |-> \A k \in DOMAIN fields : IsCopy(fields[k].ty)])
          IN  [rows |-> inserted, res |-> AddRowOccupied(inserted, name, fields)]
          : sorted \in SortUnstableByName(fields)}

-----------------------------------------------------------------------------
(* PreparedModule::add_query *)

\* The entry of that name replaced, as IndexMap::insert would.
AddQueryReplace(queries, name, entry) ==
    [queries |-> [queries EXCEPT ![IndexOf(queries, name.value).value + 1] = entry],
     res |-> Ok(IndexOf(queries, name.value).value)]

\* Entry::Occupied
AddQueryOccupied(queries, name, entry) ==
    [queries |-> queries,
     res |-> Err(Validation([kind |-> "QueryNameAlreadyUsed",
                             name |-> name.value,
                             pos |-> name.pos]))]

\* The new query put first.
AddQueryFirst(queries, name, entry) ==
    [queries |-> <<entry>> \o queries, res |-> Ok(0)]

\* Entry::Vacant
AddQueryVacant(queries, name, entry) ==
    [queries |-> Append(queries, entry), res |-> Ok(Len(queries))]

add_query(queries, name, params, row_idx, sql) ==
    LET entry == [name |-> name.value, params |-> params, row |-> row_idx, sql |-> sql]
    IN  IF IsSome(IndexOf(queries, name.value))
        THEN AddQueryOccupied(queries, name, entry)
        ELSE AddQueryVacant(queries, name, entry)

-----------------------------------------------------------------------------
(* PreparedModule::add_params *)

\* The test of lines 149-150.
ParamFieldsDiffer(prev, params) ==
    Len(prev) # Len(params) \/ ~(\A k \in DOMAIN prev : Contains(params, prev[k]))

\* The outcomes of add_params: the params table afterwards and the value
\* returned.
add_params(module, name, query_idx) ==
    LET params == module.queries[query_idx + 1].params
        found == IndexOf(module.params, name.value)
    IN  IF params = <<>>
        THEN {[params |-> module.params, res |-> Panic("assertion failed")]}
        ELSE IF IsSome(found)
        THEN LET prev == module.params[found.value + 1]
             IN  IF ParamFieldsDiffer(prev.fields, params)
                 THEN {[params |-> module.params,
                        res |-> Err(Validation([kind |-> "NamedParamStructInvalidFields",
                                                name |-> name.value,
                                                pos |-> name.pos,
                                                expected |-> prev.fields,
                                                actual |-> params]))]}
                 ELSE {[params |-> [module.params EXCEPT ![found.value + 1].queries =
                                        Append(@, query_idx)],
                        res |-> Ok(found.value)]}
        ELSE {[params |-> Append(module.params, [name |-> name.value,
                                                 fields |-> fields,
                                                 queries |-> <<query_idx>>]),
               res |-> Ok(Len(module.params))]
              : fields \in SortUnstableByName(params)}

-----------------------------------------------------------------------------
(* The driver *)

\* A statement's SQL text is modelled by what the server makes of it: whether
\* it prepares at all, the parameter types it infers and the columns it
\* returns.
\* client.prepare(&query.sql_str)
ClientPrepare(sql_str) ==
    CASE sql_str.fault = "syntax" ->
            Err([variant |-> "Db", db_error |-> Some("syntax error")])
      [] sql_str.fault = "closed" ->
            Err([variant |-> "Db", db_error |-> None])
      [] OTHER ->
            Ok([params |-> sql_str.params, columns |-> sql_str.columns])

-----------------------------------------------------------------------------
(* prepare_query *)

Min(a, b) == IF a <= b THEN a ELSE b

\* The first Err of a sequence of Results, or Ok of all the values.
Collect(results) ==
    IF \E k \in DOMAIN results : ~IsOk(results[k])
    THEN results[CHOOSE k \in DOMAIN results :
                    ~IsOk(results[k]) /\ \A j \in 1..(k - 1) : IsOk(results[j])]
    ELSE Ok([k \in DOMAIN results |-> results[k].value])

\* The parameter fields taken as the server gives them, no type refused.
ParamFieldsUnregistered(query, stmt) ==
    Ok([k \in 1..Min(Len(query.params), Len(stmt.params)) |->
           PreparedField(query.params[k], stmt.params[k], FALSE)])

\* Lines 283-297: the parameter fields, query.params zipped with stmt.params().
ParamFields(query, stmt) ==
    LET n == Min(Len(query.params), Len(stmt.params))
        tys == Collect([k \in 1..n |-> Register(stmt.params[k])])
    IN  IF IsOk(tys)
        THEN Ok([k \in 1..n |-> PreparedField(query.params[k], tys.value[k], FALSE)])
        ELSE tys

\* has_duplicate(iter, mapper), keys being the mapped items: the first item
\* whose key an earlier item already had.
has_duplicate(items, keys) ==
    LET dup(i) == \E k \in 1..(i - 1) : keys[k] = keys[i]
    IN  IF \E i \in DOMAIN items : dup(i)
        THEN Some(items[CHOOSE i \in DOMAIN items : dup(i) /\ \A j \in 1..(i - 1) : ~dup(j)])
        ELSE None

\* stmt_cols.get(*index as usize - 1): the subtraction overflows for index 0,
\* which panics where overflow checks are on and wraps to usize::MAX, beyond
\* the end of any Vec, where they are off.
StmtColsGet(stmt_cols, index) ==
    IF index = 0
    THEN {Panic("attempt to subtract with overflow"), None}
    ELSE IF index <= Len(stmt_cols)
    THEN {Some(stmt_cols[index])}
    ELSE {None}

\* Lines 336-338: the entry of nullable_cols recorded for this column name.
FindNullable(nullable_cols, name) ==
    IF \E k \in DOMAIN nullable_cols : nullable_cols[k].name = name
    THEN Some(nullable_cols[CHOOSE k \in DOMAIN nullable_cols :
                 nullable_cols[k].name = name
                 /\ \A j \in 1..(k - 1) : nullable_cols[j].name # name])
    ELSE None

\* Lines 313-370: the loop over query.nullable_columns, from the annotations
\* still to do and the nullable_cols recorded so far.  Its outcomes: Ok of the
\* final nullable_cols, Err of a ValidationError, or a panic.
RECURSIVE ResolveNullable(_, _, _)
ResolveNullable(anns, stmt_cols, nullable_cols) ==
    IF anns = <<>>
    THEN {Ok(nullable_cols)}
    ELSE
      LET nullable_col == Head(anns)
      IN  IF nullable_col.value.kind = "Index"
          THEN UNION {
                 IF col.tag = "Panic"
                 THEN {col}
                 ELSE IF col.tag = "None"
                 THEN {Err(Validation([kind |-> "InvalidNullableColumnIndex",
                                       index |-> nullable_col.value.index,
                                       max_col_index |-> Len(stmt_cols),
                                       pos |-> nullable_col.pos]))}
                 ELSE LET found == FindNullable(nullable_cols, col.value.name)
                      IN  IF IsSome(found)
                          THEN {Err(Validation([kind |-> "ColumnAlreadyNullable",
                                                name |-> found.value.name,
                                                pos |-> found.value.ann.pos]))}
                          ELSE ResolveNullable(Tail(anns), stmt_cols,
                                   Append(nullable_cols,
                                          [ann |-> nullable_col, name |-> col.value.name]))
                 : col \in StmtColsGet(stmt_cols, nullable_col.value.index)}
          ELSE IF \E y \in DOMAIN stmt_cols : stmt_cols[y].name = nullable_col.value.name
               THEN ResolveNullable(Tail(anns), stmt_cols,
                        Append(nullable_cols,
                               [ann |-> nullable_col, name |-> nullable_col.value.name]))
               ELSE {Err(Validation([kind |-> "InvalidNullableColumnName",
                                     name |-> nullable_col.value.name,
                                     pos |-> nullable_col.pos]))}

\* The row fields with the leading columns flagged, as many as there are
\* resolved annotations.
RowFieldsFlaggedByCount(stmt_cols, nullable_cols) ==
    LET tys == Collect([k \in DOMAIN stmt_cols |-> Register(stmt_cols[k].ty)])
    IN  IF IsOk(tys)
        THEN Ok([k \in DOMAIN stmt_cols |->
                    PreparedField(stmt_cols[k].name, tys.value[k],
                                  k <= Len(nullable_cols))])
        ELSE tys

\* Lines 385-402: the row fields, one per returned column.
RowFields(stmt_cols, nullable_cols) ==
    LET tys == Collect([k \in DOMAIN stmt_cols |-> Register(stmt_cols[k].ty)])
    IN  IF IsOk(tys)
        THEN Ok([k \in DOMAIN stmt_cols |->
                    PreparedField(stmt_cols[k].name, tys.value[k],
                                  \E j \in DOMAIN nullable_cols :
                                      nullable_cols[j].name = stmt_cols[k].name)])
        ELSE tys

\* Lines 404-406
RowStructName(query) ==
    IF IsSome(query.named_return_struct)
    THEN query.named_return_struct.value
    ELSE [value |-> ToUpperCamelCase(query.name.value), pos |-> query.name.pos]

\* Lines 407-409
ParamStructName(query) ==
    IF IsSome(query.named_param_struct)
    THEN query.named_param_struct.value
    ELSE [value |-> ParamsSuffix(ToUpperCamelCase(query.name.value)), pos |-> query.name.pos]

\* What one call of prepare_query leaves behind: the module as mutated, the
\* value returned, the row_fields it built (None when it returned before
\* line 402) and whether add_query inserted the query.
Outcome(module, res, row_fields, inserted) ==
    [module |-> module, res |-> res, row_fields |-> row_fields, inserted |-> inserted]

\* A step's Err(ErrorVariant) wrapped by map_err into Err(Error); a panic
\* passes through.
MapErr(res, query, path) ==
    IF IsErr(res) THEN Err(ErrorNew(res.err, query, path)) ELSE res

\* Lines 404-447: the three insertions.
Insertions(module, query, module_path, params, row_fields) ==
    LET row_outs ==
            IF row_fields # <<>>
            THEN {[rows |-> o.rows,
                   res |-> IF IsOk(o.res) THEN Ok(Some(o.res.value)) ELSE o.res]
                  : o \in add_row(module.rows, RowStructName(query), row_fields)}
            ELSE {[rows |-> module.rows, res |-> Ok(None)]}
        cols == Some(row_fields)
    IN  UNION {
          LET m1 == [module EXCEPT !.rows = r.rows]
          IN  IF ~IsOk(r.res)
              THEN {Outcome(m1, MapErr(r.res, query, module_path), cols, FALSE)}
              ELSE
                LET q == add_query(m1.queries, query.name, params, r.res.value, query.sql_str)
                    m2 == [m1 EXCEPT !.queries = q.queries]
                IN  IF ~IsOk(q.res)
                    THEN {Outcome(m2, MapErr(q.res, query, module_path), cols, FALSE)}
                    ELSE IF params # <<>>
                    THEN {Outcome([m2 EXCEPT !.params = p.params],
                                  IF IsOk(p.res) THEN Ok(<<>>)
                                  ELSE MapErr(p.res, query, module_path),
                                  cols, TRUE)
                          : p \in add_params(m2, ParamStructName(query), q.res.value)}
                    ELSE {Outcome(m2, Ok(<<>>), cols, TRUE)}
          : r \in row_outs}

\* The outcomes of prepare_query on a module.
prepare_query(module, query, module_path) ==
    LET stmt == ClientPrepare(query.sql_str)
        fail(e) == {Outcome(module, Err(ErrorNew(e, query, module_path)), None, FALSE)}
    IN  IF ~IsOk(stmt) THEN fail(stmt.err) ELSE
        LET params == ParamFields(query, stmt.value)
            stmt_cols == stmt.value.columns
            duplicate_col == has_duplicate(stmt_cols, [k \in DOMAIN stmt_cols |-> stmt_cols[k].name])
        IN  IF ~IsOk(params) THEN fail(params.err) ELSE
            IF IsSome(duplicate_col)
            THEN fail([variant |-> "ColumnNameAlreadyTaken", name |-> duplicate_col.value.name])
            ELSE UNION {
                   IF n.tag = "Panic" THEN {Outcome(module, n, None, FALSE)} ELSE
                   IF IsErr(n) THEN fail(n.err) ELSE
                   LET nullable_cols == n.value
                       dup == has_duplicate(nullable_cols,
                                  [k \in DOMAIN nullable_cols |-> nullable_cols[k].name])
                       row_fields == RowFields(stmt_cols, nullable_cols)
                   IN  IF IsSome(dup)
                       THEN fail(Validation([kind |-> "ColumnAlreadyNullable",
                                             name |-> dup.value.name,
                                             pos |-> dup.value.ann.pos]))
                       ELSE IF ~IsOk(row_fields) THEN fail(row_fields.err)
                       ELSE Insertions(module, query, module_path, params.value, row_fields.value)
                   : n \in ResolveNullable(query.nullable_columns, stmt_cols, <<>>)}

-----------------------------------------------------------------------------
(* prepare_module and prepare *)

\* Lines 258-263
NewModule(k) == [name |-> k, queries |-> <<>>, params |-> <<>>, rows |-> <<>>]

\* The module prepare is at: modules are named by their place in the input,
\* and so are their files.
ModulePath == Len(prepared_modules) + 1

\* prepare's loop takes the next module and prepare_module starts on it.
PrepareModuleStart ==
    /\ pc = "modules"
    /\ modules > 0
    /\ pc' = "queries"
    /\ modules' = modules - 1
    /\ tmp' = NewModule(ModulePath)
    /\ observed' = <<>>
    /\ UNCHANGED <<current, prepared_modules, result, server, report>>

\* The error dropped and the loop going on.
AfterQueryIgnoringErrors(out) ==
    pc' = "queries" /\ result' = result

\* Line 265 and the `?` of line 209: how prepare goes on after one
\* prepare_query returned.
AfterQuery(out) ==
    IF IsOk(out.res)
    THEN pc' = "queries" /\ result' = result
    ELSE pc' = "done" /\ result' = out.res

\* The record kept of a query that entered the queries table: where it stood
\* in the file, the columns the server returned for it (as row_fields) and
\* the struct names it used.
Observation(query, row_fields) ==
    [name |-> query.name.value,
     line |-> query.line,
     columns |-> row_fields,
     row_struct_name |-> RowStructName(query).value,
     param_struct_name |-> ParamStructName(query).value]

\* One turn of prepare_module's loop: prepare_query on the next query.
PrepareQueryStep(query) ==
    /\ pc = "queries"
    /\ Len(tmp.queries) < MaxQueries
    /\ \E out \in prepare_query(tmp, query, ModulePath) :
          /\ tmp' = out.module
          /\ current' = [query |-> query, row_fields |-> out.row_fields, res |-> out.res]
          /\ observed' = IF out.inserted
                         THEN Append(observed, Observation(query, out.row_fields.value))
                         ELSE observed
          /\ AfterQuery(out)
    /\ server' = server + 1
    /\ UNCHANGED <<modules, prepared_modules, report>>

\* The module's queries are exhausted: prepare_module returns Ok(tmp), which
\* prepare pushes.
PrepareModuleReturn ==
    /\ pc = "queries"
    /\ pc' = "modules"
    /\ prepared_modules' = Append(prepared_modules, tmp)
    /\ UNCHANGED <<modules, tmp, current, observed, result, server, report>>

\* Line 249
PrepareReturn ==
    /\ pc = "modules"
    /\ modules = 0
    /\ pc' = "done"
    /\ result' = Ok(prepared_modules)
    /\ UNCHANGED <<modules, tmp, current, observed, prepared_modules, server, report>>

\* The caller renders the Error prepare returned.
Report ==
    /\ pc = "done"
    /\ IsErr(result)
    /\ report = None
    /\ report' = Display(result.err)
    /\ UNCHANGED <<modules, pc, tmp, current, observed, prepared_modules, result, server>>

-----------------------------------------------------------------------------
(* Inputs *)

Pos(line, item, k) == [line |-> line, item |-> item, k |-> k]

Index(i) == [kind |-> "Index", index |-> i, name |-> ""]
Named(n) == [kind |-> "Named", index |-> 0, name |-> n]

Col(name, ty) == [name |-> name, ty |-> ty]
Cols(names) == [k \in DOMAIN names |-> Col(names[k], "INT")]

Select(columns) == [fault |-> "none", params |-> <<>>, columns |-> columns]
Statement(params, columns) == [fault |-> "none", params |-> params, columns |-> columns]
Broken(fault) == [fault |-> fault, params |-> <<>>, columns |-> <<>>]

\* The ParsedQuery at `line` of its file.  shape gives the SQL text, the
\* parameter names and the nullable annotations; row and params are the
\* struct names declared ("" for none).
ParsedQuery(line, name, shape, row, params) ==
    [name |-> [value |-> name, pos |-> Pos(line, "name", 0)],
     line |-> line,
     sql_str |-> shape.sql_str,
     params |-> shape.params,
     nullable_columns |-> [k \in DOMAIN shape.nullable |->
                              [value |-> shape.nullable[k], pos |-> Pos(line, "nullable", k)]],
     named_return_struct |-> IF row = "" THEN None
                             ELSE Some([value |-> row, pos |-> Pos(line, "row", 0)]),
     named_param_struct |-> IF params = "" THEN None
                            ELSE Some([value |-> params, pos |-> Pos(line, "params", 0)])]

Shape(sql_str, params, nullable) ==
    [sql_str |-> sql_str, params |-> params, nullable |-> nullable]

\* The line of the query prepare_module is about to prepare.
NextLine == Len(tmp.queries) + 1

\* Queries of the whole pipeline: few shapes, among them one the server
\* rejects.
PipelineShapes ==
    {Shape(Select(Cols(<<"a">>)), <<>>, <<>>),
     Shape(Statement(<<"INT">>, <<>>), <<"a">>, <<>>),
     Shape(Broken("syntax"), <<>>, <<>>)}

PipelineQueries ==
    {ParsedQuery(NextLine, n, s, "", "") : n \in {"get_a", "get_b"}, s \in PipelineShapes}

Init ==
    /\ modules \in 0..MaxModules
    /\ pc = "modules"
    /\ tmp = NewModule(0)
    /\ current = None
    /\ observed = <<>>
    /\ prepared_modules = <<>>
    /\ result = None
    /\ server = 0
    /\ report = None

PreparePipelineQuery == \E query \in PipelineQueries : PrepareQueryStep(query)

Next ==
    \/ PrepareModuleStart
    \/ PreparePipelineQuery
    \/ PrepareModuleReturn
    \/ PrepareReturn

Spec == Init /\ [][Next]_vars

-----------------------------------------------------------------------------
(* One module, queries that return rows *)

\* prepare on a single module.
InitOne ==
    /\ modules = 1
    /\ pc = "modules"
    /\ tmp = NewModule(0)
    /\ current = None
    /\ observed = <<>>
    /\ prepared_modules = <<>>
    /\ result = None
    /\ server = 0
    /\ report = None

\* Sequences over S without repetition, of every length.
Orders(S) ==
    UNION {{f \in [1..n -> S] : \A i, j \in 1..n : i # j => f[i] # f[j]} : n \in 0..Cardinality(S)}

\* Every order of up to three distinct columns, a column of another type, a
\* repeated column name, and columns annotated nullable.
RowShapes ==
    {Shape(Select(Cols(names)), <<>>, <<>>) : names \in Orders({"a", "b", "c"})}
    \cup {Shape(Select(<<Col("a", "TEXT"), Col("b", "INT")>>), <<>>, <<>>),
          Shape(Select(Cols(<<"a", "a">>)), <<>>, <<>>),
          Shape(Select(Cols(<<"a", "b">>)), <<>>, <<Named("a")>>),
          Shape(Select(Cols(<<"b", "a">>)), <<>>, <<Index(2)>>)}

RowQueries ==
    {ParsedQuery(NextLine, "get_a", s, "R", "") : s \in RowShapes}
    \cup {ParsedQuery(NextLine, "get_b", s, r, "") : s \in RowShapes, r \in {"", "R"}}

PrepareRowQuery ==
    /\ Len(tmp.queries) < MaxRowQueries
    /\ \E query \in RowQueries : PrepareQueryStep(query)

NextRows ==
    \/ PrepareModuleStart
    \/ PrepareRowQuery
    \/ PrepareModuleReturn
    \/ PrepareReturn

SpecRows == InitOne /\ [][NextRows]_vars

-----------------------------------------------------------------------------
(* One module, queries that take parameters *)

\* Parameter names, repeated ones among them, against the types the server
\* infers.
ParamShapes ==
    {Shape(Statement(tys, <<>>), names, <<>>) :
        names \in {<<>>, <<"a">>, <<"a", "a">>, <<"a", "b">>, <<"b", "a">>},
        tys \in {<<"INT">>, <<"INT", "INT">>, <<"INT", "TEXT">>}}

ParamQueries ==
    {ParsedQuery(NextLine, n, s, "", p) :
        n \in {"get_a", "get_b"}, s \in ParamShapes, p \in {"", "P"}}

PrepareParamQuery == \E query \in ParamQueries : PrepareQueryStep(query)

NextParams ==
    \/ PrepareModuleStart
    \/ PrepareParamQuery
    \/ PrepareModuleReturn
    \/ PrepareReturn

SpecParams == InitOne /\ [][NextParams]_vars

-----------------------------------------------------------------------------
(* One query with nullable annotations *)

MaxNullable == 3
MaxIndex == 3

NullableColumns ==
    {Index(i) : i \in 0..MaxIndex} \cup {Named(n) : n \in {"a", "b", "c"}}

NullableShapes ==
    {Shape(Statement(<<"INT">>, Cols(names)), params, anns) :
        names \in {<<>>, <<"a">>, <<"a", "b">>},
        params \in {<<>>, <<"a">>},
        anns \in UNION {[1..n -> NullableColumns] : n \in 0..MaxNullable}}

NullableQueries ==
    {ParsedQuery(NextLine, "get_a", s, "", "") : s \in NullableShapes}

\* The module of this specification holds a single query.
PrepareNullableQuery ==
    /\ pc = "queries"
    /\ tmp.queries = <<>>
    /\ \E query \in NullableQueries : PrepareQueryStep(query)

NextNullable ==
    \/ PrepareModuleStart
    \/ PrepareNullableQuery
    \/ PrepareModuleReturn
    \/ PrepareReturn

SpecNullable == InitOne /\ [][NextNullable]_vars

-----------------------------------------------------------------------------
(* One module, queries that share names *)

TableShapes ==
    {Shape(Statement(tys, Cols(names)), params, <<>>) :
        names \in {<<>>, <<"a">>, <<"b", "a">>},
        tys \in {<<"INT">>},
        params \in {<<>>, <<"a">>}}

TableQueries ==
    {ParsedQuery(NextLine, n, s, r, "") :
        n \in {"get_a", "getA", "get_b"}, s \in TableShapes, r \in {"", "GetA"}}

PrepareTableQuery == \E query \in TableQueries : PrepareQueryStep(query)

NextTables ==
    \/ PrepareModuleStart
    \/ PrepareTableQuery
    \/ PrepareModuleReturn
    \/ PrepareReturn

SpecTables == InitOne /\ [][NextTables]_vars

-----------------------------------------------------------------------------
(* One module, queries with several defects at once *)

\* Statements whose parameter or column has a type that cannot be
\* registered, that return a column name twice, that carry an annotation
\* naming no column, or that the server rejects; under two query names, one
\* row struct name and one params struct name.
DefectShapes ==
    {Shape([fault |-> f, params |-> tys, columns |-> cols], params, anns) :
        f \in {"none"},
        tys \in {<<"INT">>, <<"TEXT">>, <<"VOID">>},
        cols \in {<<>>, Cols(<<"a">>), Cols(<<"a", "a">>),
                  <<Col("a", "TEXT")>>, <<Col("a", "VOID")>>},
        params \in {<<"a">>},
        anns \in {<<>>, <<Named("c")>>}}
    \cup {Shape(Select(cols), <<>>, anns) :
            cols \in {<<>>, Cols(<<"a">>), Cols(<<"a", "a">>),
                      <<Col("a", "TEXT")>>, <<Col("a", "VOID")>>},
            anns \in {<<>>, <<Named("c")>>, <<Index(1)>>}}
    \cup {Shape(Broken("syntax"), <<"a">>, anns) : anns \in {<<>>, <<Named("c")>>}}

DefectQueries ==
    {ParsedQuery(NextLine, n, s, "R", "P") : n \in {"get_a", "get_b"}, s \in DefectShapes}

PrepareDefectQuery ==
    /\ pc = "queries"
    /\ Len(tmp.queries) < MaxRowQueries
    /\ \E query \in DefectQueries : PrepareQueryStep(query)

NextDefects ==
    \/ PrepareModuleStart
    \/ PrepareDefectQuery
    \/ PrepareModuleReturn
    \/ PrepareReturn

SpecDefects == InitOne /\ [][NextDefects]_vars

-----------------------------------------------------------------------------
(* Statements the driver fails to prepare, and the error rendered *)

\* A statement that prepares, one the server rejects and one sent over a
\* connection that is closed.
ErrorShapes ==
    {Shape(Select(Cols(<<"a">>)), <<>>, <<>>),
     Shape(Broken("syntax"), <<>>, <<>>),
     Shape(Broken("closed"), <<>>, <<>>)}

ErrorQueries ==
    {ParsedQuery(NextLine, n, s, "", "") : n \in {"get_a", "get_b"}, s \in ErrorShapes}

PrepareErrorQuery ==
    /\ pc = "queries"
    /\ \E query \in ErrorQueries : PrepareQueryStep(query)

NextErrors ==
    \/ PrepareModuleStart
    \/ PrepareErrorQuery
    \/ PrepareModuleReturn
    \/ PrepareReturn
    \/ Report

SpecErrors == Init /\ [][NextErrors]_vars


-----------------------------------------------------------------------------
(* Properties *)

\* A sequence as a multiset.
SeqBag(s) == [x \in Range(s) |-> Cardinality({i \in DOMAIN s : s[i] = x})]

\* The queries of tmp that have a row.
WithRow == {qi \in DOMAIN tmp.queries : IsSome(tmp.queries[qi].row)}

RowIdx(qi) == tmp.queries[qi].row.value[1]
RowPerm(qi) == tmp.queries[qi].row.value[2]
RowOf(qi) == tmp.rows[RowIdx(qi) + 1]

\* The ValidationError prepare returned, if it returned one of this kind.
ReturnedValidation(res, kind) ==
    /\ IsErr(res)
    /\ res.err.err.variant = "Validation"
    /\ res.err.err.error.kind = kind

\* C1 as stated: for every PreparedQuery with row = Some(i, perm) and every
\* column position j of the query, rows[i].fields[perm[j]] is structurally
\* equal to the j-th column the server returned for the query.
C1_RowFieldAtPermIsColumn ==
    \A qi \in WithRow :
        \A j \in DOMAIN observed[qi].columns :
            /\ j \in DOMAIN RowPerm(qi)
            /\ RowPerm(qi)[j] + 1 \in DOMAIN RowOf(qi).fields
            /\ RowOf(qi).fields[RowPerm(qi)[j] + 1] = observed[qi].columns[j]

\* C1 amended: for every PreparedQuery with row = Some(i, perm) and every
\* field position k of rows[i], the column at position perm[k] of those the
\* server returned for the query is structurally equal to rows[i].fields[k].
C1_ColumnAtPermIsRowField ==
    \A qi \in WithRow :
        /\ DOMAIN RowPerm(qi) = DOMAIN RowOf(qi).fields
        /\ \A k \in DOMAIN RowOf(qi).fields :
              /\ RowPerm(qi)[k] + 1 \in DOMAIN observed[qi].columns
              /\ observed[qi].columns[RowPerm(qi)[k] + 1] = RowOf(qi).fields[k]

\* A query of three columns whose permutation is not its own inverse.
C1_ThreeColumnsOutOfOrder ==
    \E qi \in WithRow :
        /\ Len(observed[qi].columns) = 3
        /\ \E k \in DOMAIN RowPerm(qi) : RowPerm(qi)[RowPerm(qi)[k] + 1] # k - 1

\* A step in which prepare_query called add_row with a name already in rows.
AddRowOnExistingName ==
    /\ pc = "queries"
    /\ server' = server + 1
    /\ IsSome(current'.row_fields)
    /\ current'.row_fields.value # <<>>
    /\ IsSome(IndexOf(tmp.rows, RowStructName(current'.query).value))

\* C3: add_row on a name already present succeeds iff the new columns equal
\* the existing row's fields as a multiset; either way the rows table is left
\* as it was; on mismatch the error is NamedRowInvalidFields with expected the
\* existing fields, actual the new columns, and the name and pos of the new
\* query's row struct name.
C3_AddRowOnExistingName ==
    [][AddRowOnExistingName =>
        LET name == RowStructName(current'.query)
            prev == tmp.rows[IndexOf(tmp.rows, name.value).value + 1].fields
            cols == current'.row_fields.value
            mismatch == Validation([kind |-> "NamedRowInvalidFields",
                                    expected |-> prev,
                                    actual |-> cols,
                                    name |-> name.value,
                                    pos |-> name.pos])
            succeeded == \/ IsOk(current'.res)
                         \/ ReturnedValidation(current'.res, "QueryNameAlreadyUsed")
                         \/ ReturnedValidation(current'.res, "NamedParamStructInvalidFields")
        IN  /\ tmp'.rows = tmp.rows
            /\ succeeded <=> SeqBag(prev) = SeqBag(cols)
            /\ ~succeeded => /\ IsErr(current'.res)
                             /\ current'.res.err.err = mismatch
                             /\ result' = current'.res]_vars

\* add_row refused columns of the right number that are not the row's fields.
C3_SameLengthMismatch ==
    /\ ReturnedValidation(result, "NamedRowInvalidFields")
    /\ Len(result.err.err.error.expected) = Len(result.err.err.error.actual)

StrictlySorted(fields) ==
    \A k \in 1..(Len(fields) - 1) : Rank(fields[k].name) < Rank(fields[k + 1].name)

\* C5: in every reachable state the fields of every PreparedRow are strictly
\* sorted ascending by name.
C5_RowFieldsStrictlySorted ==
    /\ \A i \in DOMAIN tmp.rows : StrictlySorted(tmp.rows[i].fields)
    /\ \A m \in DOMAIN prepared_modules :
          \A i \in DOMAIN prepared_modules[m].rows :
              StrictlySorted(prepared_modules[m].rows[i].fields)

\* A row made from a query whose columns did not come sorted.
C5_RowFromUnsortedColumns ==
    \E qi \in WithRow :
        /\ ~StrictlySorted(observed[qi].columns)
        /\ \A qj \in WithRow : RowIdx(qj) = RowIdx(qi) => qi <= qj


-----------------------------------------------------------------------------
(* Nullable annotations *)

\* The column name an annotation stands for among the returned columns, or ""
\* when it stands for none.
Resolved(ann, cols) ==
    IF ann.kind = "Index"
    THEN IF ann.index \in DOMAIN cols THEN cols[ann.index].name ELSE ""
    ELSE IF \E y \in DOMAIN cols : cols[y].name = ann.name THEN ann.name ELSE ""

\* prepare_query was called and the server prepared its statement.
Prepared == current # None /\ current.query.sql_str.fault = "none"

\* C2: when two nullable annotations of one query resolve to the same column,
\* prepare_query fails with ColumnAlreadyNullable whose name is that column and
\* whose pos is the position of the second (later) annotation.  (Stated for
\* queries all of whose annotations resolve to a column: the later annotation
\* is the first one that resolves to a column an earlier one resolved to.)
C2_PosOfLaterAnnotation ==
    Prepared =>
        LET anns == current.query.nullable_columns
            cols == current.query.sql_str.columns
            name(k) == Resolved(anns[k].value, cols)
            repeats(k) == \E j \in 1..(k - 1) : name(j) = name(k)
        IN  (\A k \in DOMAIN anns : name(k) # "") =>
                \A k \in DOMAIN anns :
                    (repeats(k) /\ \A j \in 1..(k - 1) : ~repeats(j)) =>
                        /\ IsErr(current.res)
                        /\ current.res.err.err =
                              Validation([kind |-> "ColumnAlreadyNullable",
                                          name |-> name(k),
                                          pos |-> anns[k].pos])

\* C6: with n returned columns, a first annotation Index(i) with i outside
\* 1..n makes prepare_query return InvalidNullableColumnIndex{index = i,
\* max_col_index = n, pos = the annotation's pos}; a sole annotation Index(i)
\* with i in 1..n marks the i-th column, and no other, nullable; and no
\* annotation makes prepare_query abort in any other way.
C6_IndexOutOfRange ==
    Prepared =>
        LET anns == current.query.nullable_columns
            n == Len(current.query.sql_str.columns)
        IN  /\ current.res.tag # "Panic"
            /\ (anns # <<>> /\ anns[1].value.kind = "Index") =>
                  LET i == anns[1].value.index
                  IN  /\ i \notin 1..n =>
                            /\ IsErr(current.res)
                            /\ current.res.err.err =
                                  Validation([kind |-> "InvalidNullableColumnIndex",
                                              index |-> i,
                                              max_col_index |-> n,
                                              pos |-> anns[1].pos])
                      /\ (i \in 1..n /\ Len(anns) = 1) =>
                            /\ IsOk(current.res)
                            /\ \A k \in 1..n :
                                  current.row_fields.value[k].is_nullable <=> k = i

-----------------------------------------------------------------------------
(* Params *)

\* C4: after any sequence of successful prepare_query calls, every
\* PreparedParams entry has a non-empty queries list, and the parameter list
\* of every query in it equals the entry's fields as a multiset.
C4_ParamsFieldsAreQueryParams ==
    ~IsErr(result) =>
        \A i \in DOMAIN tmp.params :
            /\ tmp.params[i].queries # <<>>
            /\ \A k \in DOMAIN tmp.params[i].queries :
                  LET qi == tmp.params[i].queries[k] + 1
                  IN  /\ qi \in DOMAIN tmp.queries
                      /\ SeqBag(tmp.queries[qi].params) = SeqBag(tmp.params[i].fields)


-----------------------------------------------------------------------------
(* The tables *)

UniqueNames(table) ==
    \A i, j \in DOMAIN table : table[i].name = table[j].name => i = j

TablesUnique ==
    /\ UniqueNames(tmp.queries)
    /\ UniqueNames(tmp.params)
    /\ UniqueNames(tmp.rows)

\* A step in which prepare_query was handed a query whose name an earlier
\* query of the module has.
RepeatsQueryName ==
    /\ pc = "queries"
    /\ server' = server + 1
    /\ IsSome(IndexOf(tmp.queries, current'.query.name.value))

QueryNameAlreadyUsed(q) ==
    Validation([kind |-> "QueryNameAlreadyUsed", name |-> q.name.value, pos |-> q.name.pos])

\* In the step, add_row (when called) accepts the query's columns.
RowAccepted ==
    LET name == RowStructName(current'.query).value
        cols == current'.row_fields.value
    IN  \/ cols = <<>>
        \/ ~IsSome(IndexOf(tmp.rows, name))
        \/ SeqBag(tmp.rows[IndexOf(tmp.rows, name).value + 1].fields) = SeqBag(cols)

\* C7 as stated: the three tables never hold two entries of one name, and
\* preparing a query whose name an earlier query has fails with
\* QueryNameAlreadyUsed carrying the later query's name and pos, the earlier
\* entry left unchanged.
C7_RepeatedNameIsQueryNameAlreadyUsed ==
    /\ TablesUnique
    /\ [][/\ TablesUnique'
          /\ RepeatsQueryName =>
                /\ IsErr(current'.res)
                /\ current'.res.err.err = QueryNameAlreadyUsed(current'.query)
                /\ result' = current'.res
                /\ tmp'.queries = tmp.queries]_vars

\* C7 amended: the three tables never hold two entries of one name; preparing
\* a query whose name an earlier query has fails and leaves the queries table
\* unchanged; the error is QueryNameAlreadyUsed with the later query's name and
\* pos whenever no earlier step of prepare_query failed for that query.
C7_RepeatedNameFails ==
    /\ TablesUnique
    /\ [][/\ TablesUnique'
          /\ RepeatsQueryName =>
                /\ ~IsOk(current'.res)
                /\ result' = current'.res
                /\ tmp'.queries = tmp.queries
                /\ (IsSome(current'.row_fields) /\ RowAccepted) =>
                      /\ IsErr(current'.res)
                      /\ current'.res.err.err = QueryNameAlreadyUsed(current'.query)]_vars

\* prepare returned QueryNameAlreadyUsed.
C7_NameRefused == ReturnedValidation(result, "QueryNameAlreadyUsed")

IsPrefix(s, t) == Len(s) <= Len(t) /\ \A i \in DOMAIN s : s[i] = t[i]

\* Every index held in the tables points at the entry it was handed out for.
IndicesPointHome ==
    /\ \A qi \in WithRow :
          /\ RowIdx(qi) + 1 \in DOMAIN tmp.rows
          /\ RowOf(qi).name = observed[qi].row_struct_name
    /\ \A i \in DOMAIN tmp.params :
          \A k \in DOMAIN tmp.params[i].queries :
              LET qi == tmp.params[i].queries[k] + 1
              IN  /\ qi \in DOMAIN tmp.queries
                  /\ tmp.queries[qi].name = observed[qi].name
                  /\ observed[qi].param_struct_name = tmp.params[i].name

\* A step on the module under construction only appends to its tables.
OnlyAppends ==
    pc = "queries" =>
        /\ IsPrefix(tmp.rows, tmp'.rows)
        /\ IsPrefix(tmp.queries, tmp'.queries)
        /\ Len(tmp.params) <= Len(tmp'.params)
        /\ \A i \in DOMAIN tmp.params :
              /\ tmp'.params[i].name = tmp.params[i].name
              /\ tmp'.params[i].fields = tmp.params[i].fields
              /\ IsPrefix(tmp.params[i].queries, tmp'.params[i].queries)

\* C9: the indices handed out by add_row, add_query and add_params stay valid
\* after any later insertions: a query's row index is the position of the row
\* of its row struct name, every index in a params entry's queries list is the
\* position of the query inserted with it, and no operation removes or
\* reorders an entry of the three tables.
C9_IndicesStayValid == []IndicesPointHome /\ [][OnlyAppends]_vars

\* Three queries in, the first one's row is followed by another row and a
\* params entry is shared.
C9_LaterInsertions ==
    /\ Len(tmp.queries) = 3
    /\ 1 \in WithRow
    /\ Len(tmp.rows) >= 2
    /\ \E i \in DOMAIN tmp.params : Len(tmp.params[i].queries) >= 2

RECURSIVE FirstUses(_)
\* The names of a sequence in the order of their first occurrence.
FirstUses(names) ==
    IF names = <<>>
    THEN <<>>
    ELSE LET before == FirstUses(SubSeq(names, 1, Len(names) - 1))
             last == names[Len(names)]
         IN  IF Contains(before, last) THEN before ELSE Append(before, last)

Names(table) == [i \in DOMAIN table |-> table[i].name]

\* prepare_module returned the module tmp.
Returned ==
    /\ prepared_modules # <<>>
    /\ prepared_modules[Len(prepared_modules)] = tmp

TakesRow(obs) == obs.columns # <<>>

\* C10: in a PreparedModule returned by prepare_module the queries table is in
\* the source order of the queries, and the rows table (resp. params table) in
\* the order in which each row (resp. param) struct name was first used by a
\* query, in source order.
C10_TablesInSourceOrder ==
    Returned =>
        /\ \A i \in DOMAIN observed : observed[i].line = i
        /\ Names(tmp.queries) = [i \in DOMAIN observed |-> observed[i].name]
        /\ Names(tmp.rows) =
              FirstUses([i \in DOMAIN SelectSeq(observed, TakesRow) |->
                            SelectSeq(observed, TakesRow)[i].row_struct_name])
        /\ Names(tmp.params) =
              LET taking == {i \in DOMAIN tmp.queries : tmp.queries[i].params # <<>>}
                  TakesParams(obs) == obs.line \in taking
              IN  FirstUses([i \in DOMAIN SelectSeq(observed, TakesParams) |->
                                SelectSeq(observed, TakesParams)[i].param_struct_name])

\* A returned module of three queries and two rows, the third query reusing
\* the first one's row.
C10_RowReusedLater ==
    /\ Returned
    /\ Len(tmp.queries) = 3
    /\ Len(tmp.rows) = 2
    /\ {1, 2, 3} \subseteq WithRow
    /\ RowIdx(1) = RowIdx(3)
    /\ RowIdx(2) # RowIdx(1)

-----------------------------------------------------------------------------
(* prepare *)

\* prepare_query did not return Ok.
Failed == current # None /\ ~IsOk(current.res)

RECURSIVE QueriesIn(_)
\* How many queries the modules hold.
QueriesIn(ms) ==
    IF ms = <<>> THEN 0 ELSE Len(Head(ms).queries) + QueriesIn(Tail(ms))

\* C8: prepare is fail-fast.  Modules and queries are prepared in source
\* order; once a prepare_query has returned an error the result of prepare is
\* exactly that error, no PreparedModule is returned, the server has seen no
\* statement after the failing one, and nothing is prepared from then on.
C8_FailFast ==
    /\ [](/\ pc = "queries" => tmp.name = Len(prepared_modules) + 1
          /\ IsErr(result) => Failed
          /\ Failed =>
                /\ pc = "done"
                /\ result = current.res
                /\ server = QueriesIn(prepared_modules) + current.query.line)
    /\ [][~Failed]_vars

\* An error in the second module, after one of its queries went through and
\* with a module still to come.
C8_ErrorAfterProgress ==
    /\ IsErr(result)
    /\ prepared_modules # <<>>
    /\ tmp.queries # <<>>
    /\ modules > 0

-----------------------------------------------------------------------------
(* The permutation of a row *)

\* C11: for every PreparedQuery with row = Some(i, perm), perm is a
\* permutation of 0..len(rows[i].fields): it is as long as the row's fields,
\* every entry is in range and no index occurs twice; for the query that
\* created the row and for every later query that reuses its name.
C11_PermIsPermutation ==
    \A qi \in WithRow :
        LET perm == RowPerm(qi)
            n == Len(RowOf(qi).fields)
        IN  /\ RowIdx(qi) + 1 \in DOMAIN tmp.rows
            /\ Len(perm) = n
            /\ \A k \in DOMAIN perm : perm[k] \in 0..(n - 1)
            /\ \A j, k \in DOMAIN perm : perm[j] = perm[k] => j = k

\* Two queries share a row of three fields, and the later one has its columns
\* in another order than the one that created the row.
C11_RowReusedInAnotherOrder ==
    \E qi, qj \in WithRow :
        /\ qi < qj
        /\ RowIdx(qi) = RowIdx(qj)
        /\ Len(RowOf(qj).fields) = 3
        /\ RowPerm(qi) # RowPerm(qj)

-----------------------------------------------------------------------------
(* Nullability of the fields *)

NoFlags(fields) ==
    \A k \in DOMAIN fields :
        ~fields[k].is_nullable /\ ~fields[k].is_inner_nullable

\* C12: for a successfully prepared query, a row field has is_nullable = true
\* iff some nullable annotation of the query, Index or Named, resolves to that
\* column's name; every row field has is_inner_nullable = false, and every
\* parameter field has is_nullable = false and is_inner_nullable = false.
C12_NullableIffAnnotated ==
    (Prepared /\ IsOk(current.res)) =>
        LET anns == current.query.nullable_columns
            cols == current.query.sql_str.columns
            marked(name) == \E j \in DOMAIN anns : Resolved(anns[j].value, cols) = name
            flagged(fields) ==
                \A k \in DOMAIN fields :
                    /\ fields[k].is_nullable <=> marked(fields[k].name)
                    /\ ~fields[k].is_inner_nullable
        IN  /\ Len(current.row_fields.value) = Len(cols)
            /\ \A k \in DOMAIN cols : current.row_fields.value[k].name = cols[k].name
            /\ flagged(current.row_fields.value)
            /\ \A i \in DOMAIN tmp.rows :
                  /\ SeqBag(Names(tmp.rows[i].fields)) = SeqBag(Names(cols))
                  /\ flagged(tmp.rows[i].fields)
            /\ \A i \in DOMAIN tmp.queries : NoFlags(tmp.queries[i].params)
            /\ \A i \in DOMAIN tmp.params : NoFlags(tmp.params[i].fields)

\* A query with a parameter and two columns was prepared, an annotation by
\* index and one by name between them marking the second column only.
C12_OneColumnOfTwoMarked ==
    /\ Prepared
    /\ IsOk(current.res)
    /\ current.query.nullable_columns # <<>>
    /\ tmp.params # <<>>
    /\ \E i \in DOMAIN tmp.rows :
          /\ Len(tmp.rows[i].fields) = 2
          /\ ~tmp.rows[i].fields[1].is_nullable
          /\ tmp.rows[i].fields[2].is_nullable

-----------------------------------------------------------------------------
(* The order of the nullable checks *)

\* What is wrong with the k-th annotation given the ones before it: "" when
\* nothing is.
AnnotationFault(anns, cols, k) ==
    LET ann == anns[k].value
        name == Resolved(ann, cols)
    IN  IF name = ""
        THEN IF ann.kind = "Index"
             THEN "InvalidNullableColumnIndex"
             ELSE "InvalidNullableColumnName"
        ELSE IF \E j \in 1..(k - 1) : Resolved(anns[j].value, cols) = name
        THEN "ColumnAlreadyNullable"
        ELSE ""

\* C13: nullable annotations are checked one by one in declared order, the
\* already-recorded check included, for annotations by index and by name
\* alike: the error returned is that of the first annotation in the list that
\* is out of range (InvalidNullableColumnIndex with its index), names no
\* returned column (InvalidNullableColumnName with its name) or resolves to a
\* column recorded by an earlier annotation (ColumnAlreadyNullable with that
\* column's name).
C13_ErrorOfFirstFaultyAnnotation ==
    Prepared =>
        LET anns == current.query.nullable_columns
            cols == current.query.sql_str.columns
            fault(k) == AnnotationFault(anns, cols, k)
        IN  /\ (\A k \in DOMAIN anns : fault(k) = "") => IsOk(current.res)
            /\ \A k \in DOMAIN anns :
                  (fault(k) # "" /\ \A j \in 1..(k - 1) : fault(j) = "") =>
                      /\ ~IsOk(current.res)
                      /\ IsErr(current.res) =>
                            /\ ReturnedValidation(current.res, fault(k))
                            /\ fault(k) = "InvalidNullableColumnIndex" =>
                                  current.res.err.err.error.index = anns[k].value.index
                            /\ fault(k) = "InvalidNullableColumnName" =>
                                  current.res.err.err.error.name = anns[k].value.name
                            /\ fault(k) = "ColumnAlreadyNullable" =>
                                  current.res.err.err.error.name =
                                      Resolved(anns[k].value, cols)

-----------------------------------------------------------------------------
(* Driver errors *)

\* C14: whenever the driver's prepare fails, prepare_query returns an Error
\* of variant Db carrying the failing query's name, line and module path, and
\* rendering that Error yields
\*   Error while preparing query "{q}" [file: "{p}", line: {l}] ({msg})
\* with the server's message, for every driver error, one that carries no
\* server-side message included, without the rendering aborting.
C14_DbErrorRendered ==
    (current # None /\ current.query.sql_str.fault # "none") =>
        /\ IsErr(current.res)
        /\ current.res.err.err.variant = "Db"
        /\ current.res.err.query_name = current.query.name.value
        /\ current.res.err.query_start_line = Some(current.query.line)
        /\ current.res.err.path = tmp.name
        /\ result = current.res
        /\ report # None =>
              /\ IsOk(report)
              /\ report.value =
                    <<"Error while preparing query \"", current.query.name.value,
                      "\" [file: \"", tmp.name,
                      "\", line: ", current.query.line,
                      "] (", IF IsSome(current.res.err.err.db_error)
                             THEN current.res.err.err.db_error.value
                             ELSE "",
                      ")">>

-----------------------------------------------------------------------------
(* Which error of several *)

\* The fields a query's parameters and columns make, from the query alone.
FieldsOfParams(query) ==
    [k \in 1..Min(Len(query.params), Len(query.sql_str.params)) |->
        [name |-> query.params[k], ty |-> query.sql_str.params[k],
         is_nullable |-> FALSE, is_inner_nullable |-> FALSE]]

FieldsOfColumns(query) ==
    LET cols == query.sql_str.columns
        anns == query.nullable_columns
    IN  [k \in DOMAIN cols |->
            [name |-> cols[k].name, ty |-> cols[k].ty,
             is_nullable |-> \E j \in DOMAIN anns :
                                Resolved(anns[j].value, cols) = cols[k].name,
             is_inner_nullable |-> FALSE]]

\* The defects of a query about to be prepared into a module, one truth
\* value per step of prepare_query, in the order of the steps.
Defects(module, query) ==
    LET cols == query.sql_str.columns
        anns == query.nullable_columns
        params == FieldsOfParams(query)
    IN  <<query.sql_str.fault # "none",
          \E k \in DOMAIN params : params[k].ty = "VOID",
          \E j, k \in DOMAIN cols : j # k /\ cols[j].name = cols[k].name,
          \E k \in DOMAIN anns : AnnotationFault(anns, cols, k) # "",
          \E k \in DOMAIN cols : cols[k].ty = "VOID",
          /\ cols # <<>>
          /\ \E i \in DOMAIN module.rows :
                /\ module.rows[i].name = RowStructName(query).value
                /\ SeqBag(module.rows[i].fields) # SeqBag(FieldsOfColumns(query)),
          \E i \in DOMAIN module.queries : module.queries[i].name = query.name.value,
          /\ params # <<>>
          /\ \E i \in DOMAIN module.params :
                /\ module.params[i].name = ParamStructName(query).value
                /\ SeqBag(module.params[i].fields) # SeqBag(params)>>

\* The step of prepare_query an error comes from; the two registrations give
\* the same error and are told apart by neither.
ErrorSteps(error) ==
    CASE error.variant = "Db" -> {1}
      [] error.variant = "PostgresType" -> {2, 5}
      [] error.variant = "ColumnNameAlreadyTaken" -> {3}
      [] error.variant = "Validation" ->
            CASE error.error.kind \in {"InvalidNullableColumnIndex",
                                       "InvalidNullableColumnName",
                                       "ColumnAlreadyNullable"} -> {4}
              [] error.error.kind = "NamedRowInvalidFields" -> {6}
              [] error.error.kind = "QueryNameAlreadyUsed" -> {7}
              [] error.error.kind = "NamedParamStructInvalidFields" -> {8}
              [] OTHER -> {}
      [] OTHER -> {}

\* C15: when one query has several defects, prepare_query returns the error
\* of the earliest step in the order statement preparation (Db), parameter
\* type registration, duplicate column name, nullable annotations, column
\* type registration, row insertion (NamedRowInvalidFields), query insertion
\* (QueryNameAlreadyUsed), params insertion (NamedParamStructInvalidFields);
\* and a query with no defect is prepared.
C15_ErrorOfEarliestStep ==
    [][(pc = "queries" /\ server' = server + 1) =>
        LET defects == Defects(tmp, current'.query)
        IN  /\ (\A i \in 1..8 : ~defects[i]) => IsOk(current'.res)
            /\ \A i \in 1..8 :
                  (defects[i] /\ \A j \in 1..(i - 1) : ~defects[j]) =>
                      /\ IsErr(current'.res)
                      /\ i \in ErrorSteps(current'.res.err.err)]_vars

\* A query reusing both an earlier query's name and the existing row's name,
\* with other fields, was refused for the row.
C15_RowBeforeQueryName ==
    /\ current # None
    /\ ReturnedValidation(current.res, "NamedRowInvalidFields")
    /\ \E i \in DOMAIN tmp.queries : tmp.queries[i].name = current.query.name.value

-----------------------------------------------------------------------------
(* No orphans, no gaps *)

\* Where the 0-based query index idx stands in the queries lists of params.
ParamsPlaces(params, idx) ==
    {<<i, k>> \in (DOMAIN params) \X (1..MaxQueries) :
        k \in DOMAIN params[i].queries /\ params[i].queries[k] = idx}

\* C16: in every PreparedModule returned by a successful prepare_module,
\* every entry of rows is referenced by the row index of at least one query;
\* a query has row = None iff its statement returned no columns; and a
\* query's index occurs in the queries list of exactly one params entry, once,
\* if its parameter list is non-empty, and in none otherwise.
C16_NoOrphansNoGaps ==
    Returned =>
        /\ \A i \in DOMAIN tmp.rows : \E qi \in WithRow : RowIdx(qi) = i - 1
        /\ \A qi \in DOMAIN tmp.queries :
              /\ tmp.queries[qi].row = None <=> tmp.queries[qi].sql.columns = <<>>
              /\ Cardinality(ParamsPlaces(tmp.params, qi - 1)) =
                    IF tmp.queries[qi].params # <<>> THEN 1 ELSE 0
        /\ \A i \in DOMAIN tmp.params :
              /\ Len(tmp.params[i].queries) <= MaxQueries
              /\ \A k \in DOMAIN tmp.params[i].queries :
                    tmp.params[i].queries[k] + 1 \in DOMAIN tmp.queries

\* A returned module of three queries: a row, a params entry shared by two of
\* the queries, and a query with neither columns nor parameters.
C16_SharedParamsAndBareQuery ==
    /\ Returned
    /\ Len(tmp.queries) = 3
    /\ tmp.rows # <<>>
    /\ \E i \in DOMAIN tmp.params : Len(tmp.params[i].queries) = 2
    /\ \E qi \in DOMAIN tmp.queries :
          tmp.queries[qi].row = None /\ tmp.queries[qi].params = <<>>

=============================================================================
